---- MODULE Spec2Model ----
(***************************************************************************)
(* NewsAI frontend: the client-side pagination and filter state of the     *)
(* main orchestrator script, the state module, the configuration manager   *)
(* and the result rendering of the UI manager.                             *)
(*                                                                         *)
(* The browser runs every handler to completion on one thread; the only    *)
(* suspension point of fetchAndDisplaySummaries is the await of the        *)
(* network call.  Each handler is therefore one action, the part of        *)
(* fetchAndDisplaySummaries before the await belongs to the action of the  *)
(* handler that calls it, and the part after the await is one action per   *)
(* outcome (FetchSuccess, FetchFailure).                                   *)
(***************************************************************************)
EXTENDS Integers, Sequences, FiniteSets, TLC

\* ------------------------------------------------------------------------
\* Bounds of the model
\* ------------------------------------------------------------------------
NumFeeds == 2
NumTags == 2
MaxRequests == 4
MaxTotalPages == 2
MaxArticles == 1
MaxKeywordLen == 2
MaxInFlight == 2
MaxRegens == 1
NumChatArticles == 2
MaxChatOpens == 3
MaxChatSubmits == 2

Feeds == 1..NumFeeds
Tags == 1..NumTags

\* ------------------------------------------------------------------------
\* Program constants
\* ------------------------------------------------------------------------
DefaultArticlesPerPage == 6
MinPageSize == 1
MaxPageSize == 50

\* Values typed into the page-size field: both boundaries and their
\* neighbours outside the accepted range.
PageSizeInputs == {MinPageSize - 1, MinPageSize, MaxPageSize, MaxPageSize + 1}

\* ------------------------------------------------------------------------
\* Strings are sequences of character codes (32 is the space, 97 the
\* letter a); null is a value no input can spell.
\* ------------------------------------------------------------------------
Null == <<-1>>
Chars == {32, 97}
IsSpace(c) == c = 32
KeywordInputs == UNION {[1..n -> Chars] : n \in 0..MaxKeywordLen}

RECURSIVE TrimLeft(_)
TrimLeft(s) == IF s # <<>> /\ IsSpace(Head(s)) THEN TrimLeft(Tail(s)) ELSE s

RECURSIVE TrimRight(_)
TrimRight(s) ==
    IF s # <<>> /\ IsSpace(s[Len(s)])
    THEN TrimRight(SubSeq(s, 1, Len(s) - 1)) ELSE s

\* String.prototype.trim
Trim(s) == TrimRight(TrimLeft(s))

\* Number.prototype.toString of an integer
RECURSIVE Digits(_)
Digits(n) == IF n < 10 THEN <<48 + n>> ELSE Digits(n \div 10) \o <<48 + (n % 10)>>

toString(n) == IF n < 0 THEN <<45>> \o Digits(0 - n) ELSE Digits(n)

IsDigit(c) == c >= 48 /\ c <= 57

\* the longest prefix of s made of decimal digits
RECURSIVE LeadingDigits(_)
LeadingDigits(s) ==
    IF s # <<>> /\ IsDigit(Head(s))
    THEN <<Head(s)>> \o LeadingDigits(Tail(s)) ELSE <<>>

RECURSIVE DigitsValue(_)
DigitsValue(d) ==
    IF d = <<>> THEN 0
    ELSE DigitsValue(SubSeq(d, 1, Len(d) - 1)) * 10 + (d[Len(d)] - 48)

\* the result of a parseInt: NaN, or an integer
NaN == [nan |-> TRUE, val |-> 0]

Int32(n) == [nan |-> FALSE, val |-> n]

\* only the first digit is read
parseIntString_FirstDigit(s) ==
    LET t == TrimLeft(s)
        signed == t # <<>> /\ t[1] \in {43, 45}
        d == LeadingDigits(IF signed THEN Tail(t) ELSE t)
    IN IF d = <<>> THEN NaN
       ELSE Int32((IF t[1] = 45 THEN -1 ELSE 1) * DigitsValue(<<d[1]>>))

\* parseInt of a string: leading white space, an optional sign, digits
parseIntString(s) ==
    LET t == TrimLeft(s)
        signed == t # <<>> /\ t[1] \in {43, 45}
        d == LeadingDigits(IF signed THEN Tail(t) ELSE t)
    IN IF d = <<>> THEN NaN
       ELSE Int32((IF t[1] = 45 THEN -1 ELSE 1) * DigitsValue(d))

\* JavaScript values handed to parseInt: a number (sign, integer part and
\* whether a fraction of one half follows), a string, or null
JsNumber(neg, int, frac) ==
    [type |-> "number", neg |-> neg, int |-> int, frac |-> frac, str |-> <<>>]

JsString(s) ==
    [type |-> "string", neg |-> FALSE, int |-> 0, frac |-> FALSE, str |-> s]

JsNull == [type |-> "null", neg |-> FALSE, int |-> 0, frac |-> FALSE, str |-> <<>>]

\* String(v): -0 prints as 0, null as the word null
String(v) ==
    IF v.type = "string" THEN v.str
    ELSE IF v.type = "null" THEN <<110, 117, 108, 108>>
    ELSE (IF v.neg /\ (v.int > 0 \/ v.frac) THEN <<45>> ELSE <<>>)
         \o Digits(v.int) \o (IF v.frac THEN <<46, 53>> ELSE <<>>)

\* parseInt converts its argument to a string first
parseInt(v) == parseIntString(String(v))

\* JavaScript truthiness of a string-or-null value
Truthy(s) == s # Null /\ s # <<>>

\* the operand is passed on as it is
OrNull_Identity(s) == s

\* `x || null`
OrNull(s) == IF Truthy(s) THEN s ELSE Null

Range(s) == {s[i] : i \in 1..Len(s)}

\* String.prototype.includes
Includes(s, sub) ==
    \E i \in 0..(Len(s) - Len(sub)) : SubSeq(s, i + 1, i + Len(sub)) = sub

\* the placeholders "{text}" and "{question}"
TextPlaceholder == <<123, 116, 101, 120, 116, 125>>
QuestionPlaceholder == <<123, 113, 117, 101, 115, 116, 105, 111, 110, 125>>

\* The default prompts of state.js, shortened to one letter before their
\* placeholders: "s{text}", "c{question}", "g{text}".
defaultSummaryPrompt == <<115>> \o TextPlaceholder
defaultChatPrompt == <<99>> \o QuestionPlaceholder
defaultTagGenerationPrompt == <<103>> \o TextPlaceholder

\* Values typed into a prompt field: empty, blank, a text without any
\* placeholder, {text} between spaces, and {question}.
PromptInputs ==
    {<<>>, <<32>>, <<97>>, <<32>> \o TextPlaceholder \o <<32>>,
     QuestionPlaceholder}

VARIABLES
    articlesPerPage,        \* state.articlesPerPage
    currentPage,            \* state.currentPage
    totalPages,             \* state.totalPages
    totalArticlesAvailable, \* state.totalArticlesAvailable
    isLoadingMoreArticles,  \* state.isLoadingMoreArticles
    activeFeedFilterIds,    \* state.activeFeedFilterIds : sequence of feed ids
    activeTagFilterIds,     \* state.activeTagFilterIds : sequence of {id, name}
    currentKeywordSearch,   \* state.currentKeywordSearch : string or Null
    storedArticlesPerPage,  \* localStorage 'articlesPerPage' (Null: no entry)
    display,                \* children of #results-container, in order
    inflight,               \* summaries requests awaiting their response
    lastPayload,            \* body of the request sent last
    nextId,                 \* issue number of the next request
    currentSummaryPrompt,   \* state.currentSummaryPrompt
    currentChatPrompt,      \* state.currentChatPrompt
    currentTagGenerationPrompt, \* state.currentTagGenerationPrompt
    storedPrompts,          \* localStorage custom*Prompt entries
    regenInflight,          \* regenerate-summary requests awaiting a response
    regenSent,              \* number of regenerate-summary requests sent
    configLoaded,           \* loadConfigurations has run since the page load
    apiResponse,            \* the non-ok response handleFetch is handling
    errorDetail,            \* errorDetail of handleFetch
    thrownError,            \* message of the error handleFetch threw last
    apiPc,                  \* position of handleFetch in its error branch
    SUMMARIES_API_ENDPOINT, \* state.SUMMARIES_API_ENDPOINT
    CHAT_API_ENDPOINT_BASE, \* state.CHAT_API_ENDPOINT_BASE
    storedSummariesEndpoint, \* localStorage 'newsSummariesApiEndpoint'
    storedChatEndpoint,     \* localStorage 'newsChatApiEndpoint'
    savedChatBase,          \* history: the chat base in effect when the
                            \* save that stored the chat URL last ended
    currentArticleForChat,  \* state.currentArticleForChat (0: null)
    currentChatHistory,     \* state.currentChatHistory
    chatModalHistory,       \* children of #chat-modal-history, in order
    chatInputDisabled,      \* the question input and the ask button
    chatInflight,           \* chat messages awaiting their answer
    historyInflight,        \* chat-history requests awaiting a response
    chatSent,               \* number of chat messages sent
    chatOpens,              \* number of times the modal has been opened
    lastOp,                 \* history: the handler that ran last, its input
    scrollFetchFailed       \* history: a scroll-triggered fetch has failed
                            \* since the last filter, page-size or refresh
                            \* action that dispatched a fetch

vars == <<articlesPerPage, currentPage, totalPages, totalArticlesAvailable,
          isLoadingMoreArticles, activeFeedFilterIds, activeTagFilterIds,
          currentKeywordSearch, storedArticlesPerPage, display, inflight,
          lastPayload, nextId, currentSummaryPrompt, currentChatPrompt,
          currentTagGenerationPrompt, storedPrompts, regenInflight,
          regenSent, configLoaded, apiResponse, errorDetail, thrownError,
          apiPc, SUMMARIES_API_ENDPOINT, CHAT_API_ENDPOINT_BASE,
          storedSummariesEndpoint, storedChatEndpoint, savedChatBase,
          currentArticleForChat, currentChatHistory, chatModalHistory,
          chatInputDisabled, chatInflight, historyInflight, chatSent,
          chatOpens, lastOp, scrollFetchFailed>>

promptVars == <<currentSummaryPrompt, currentChatPrompt,
                currentTagGenerationPrompt, storedPrompts>>

regenVars == <<regenInflight, regenSent>>

endpointVars == <<SUMMARIES_API_ENDPOINT, CHAT_API_ENDPOINT_BASE,
                  storedSummariesEndpoint, storedChatEndpoint, savedChatBase>>

chatVars == <<currentArticleForChat, currentChatHistory, chatModalHistory,
              chatInputDisabled, chatInflight, historyInflight, chatSent,
              chatOpens>>

apiVars == <<apiResponse, errorDetail, thrownError, apiPc>>

\* the state of the modules that the pagination handlers never write
serviceVars == <<apiVars, endpointVars, chatVars>>

filterVars == <<activeFeedFilterIds, activeTagFilterIds, currentKeywordSearch>>

\* ------------------------------------------------------------------------
\* state.js setters, as the value the setter leaves in its variable
\* ------------------------------------------------------------------------
\* the guard written as numCount > 1
setArticlesPerPage_GuardOffByOne(count) ==
    IF count > 1 THEN count ELSE articlesPerPage

setArticlesPerPage(count) == IF count > 0 THEN count ELSE articlesPerPage

\* the guard written as numPage > 1
setCurrentPage_GuardOffByOne(page) == IF page > 1 THEN page ELSE currentPage

setCurrentPage(page) == IF page > 0 THEN page ELSE currentPage

\* the guard written as numPages > 0
setTotalPages_RejectZero(pages) == IF pages > 0 THEN pages ELSE totalPages

setTotalPages(pages) == IF pages >= 0 THEN pages ELSE totalPages

setTotalArticlesAvailable(count) ==
    IF count >= 0 THEN count ELSE totalArticlesAvailable

\* the setters as state.js exports them, for any JavaScript value
setArticlesPerPageOf(v) ==
    LET numCount == parseInt(v)
    IN IF ~numCount.nan THEN setArticlesPerPage(numCount.val)
       ELSE articlesPerPage

setCurrentPageOf(v) ==
    LET numPage == parseInt(v)
    IN IF ~numPage.nan THEN setCurrentPage(numPage.val) ELSE currentPage

setTotalPagesOf(v) ==
    LET numPages == parseInt(v)
    IN IF ~numPages.nan THEN setTotalPages(numPages.val) ELSE totalPages

setTotalArticlesAvailableOf(v) ==
    LET numCount == parseInt(v)
    IN IF ~numCount.nan THEN setTotalArticlesAvailable(numCount.val)
       ELSE totalArticlesAvailable

setIsLoadingMoreArticles(isLoading) == isLoading = TRUE

\* ids.map(parseInt).filter(id => !isNaN(id))
setActiveFeedFilterIds(ids) ==
    LET IsNumber(id) == id \in Int IN SelectSeq(ids, IsNumber)

\* an empty array is ignored and the filters are kept
setActiveTagFilterIds_KeepOnEmpty(tagObjects) ==
    IF tagObjects = <<>> THEN activeTagFilterIds ELSE tagObjects

setActiveTagFilterIds(tagObjects) ==
    LET IsTagObject(t) == t.id \in Int
    IN  SelectSeq(tagObjects, IsTagObject)

setCurrentKeywordSearch(keyword) == IF keyword # Null THEN Trim(keyword) ELSE Null

\* the tag object of an article card; the name is the letter t and the id
TagObj(t) == [id |-> t, name |-> <<116, t>>]

\* no tag is ever found in the list
HasTag_Never(tags, tagId) == \E i \in {} : tags[i].id = tagId

HasTag(tags, tagId) == \E i \in 1..Len(tags) : tags[i].id = tagId

addActiveTagFilter(tags, tagObj) ==
    IF ~HasTag(tags, tagObj.id) THEN Append(tags, tagObj) ELSE tags

removeActiveTagFilter(tags, tagId) ==
    LET Keep(t) == t.id # tagId IN SelectSeq(tags, Keep)

\* ------------------------------------------------------------------------
\* uiManager: the results container
\* ------------------------------------------------------------------------
Item(kind, req, idx) == [kind |-> kind, req |-> req, idx |-> idx]

\* one card per article of the response, in the order of the response
Cards(req, n) == [i \in 1..n |-> Item("card", req, i)]

\* the new cards are put before the ones shown
displayArticleResults_Prepend(shown, articles, clearPrevious) ==
    articles \o (IF clearPrevious THEN <<>> ELSE shown)

displayArticleResults(shown, articles, clearPrevious) ==
    (IF clearPrevious THEN <<>> ELSE shown) \o articles

setResultsContainerContent(item) == <<item>>

dbFeedSources == [i \in 1..NumFeeds |-> i]

\* ------------------------------------------------------------------------
\* fetchAndDisplaySummaries, up to the await
\* ------------------------------------------------------------------------
Payload(keyword) ==
    [page            |-> currentPage',
     page_size       |-> articlesPerPage',
     feed_source_ids |-> IF Len(activeFeedFilterIds') > 0
                         THEN activeFeedFilterIds' ELSE Null,
     tag_ids         |-> IF Len(activeTagFilterIds') > 0
                         THEN [i \in 1..Len(activeTagFilterIds') |->
                                  activeTagFilterIds'[i].id]
                         ELSE Null,
     keyword         |-> OrNull(keyword),
     summary_prompt  |-> IF currentSummaryPrompt' # defaultSummaryPrompt
                         THEN currentSummaryPrompt' ELSE Null,
     tag_generation_prompt |->
                         IF currentTagGenerationPrompt'
                                # defaultTagGenerationPrompt
                         THEN currentTagGenerationPrompt' ELSE Null]

NoPayload ==
    [page |-> 0, page_size |-> 0, feed_source_ids |-> Null, tag_ids |-> Null,
     keyword |-> Null, summary_prompt |-> Null,
     tag_generation_prompt |-> Null]

\* The caller has assigned the primed state variables.  The continuation
\* keeps the arguments page and keyword in its closure; id is the issue
\* number of the request.
fetchAndDisplaySummaries(page, keyword) ==
    /\ nextId <= MaxRequests
    /\ Cardinality(inflight) < MaxInFlight
    /\ isLoadingMoreArticles' = setIsLoadingMoreArticles(TRUE)
    /\ UNCHANGED <<promptVars, regenVars, configLoaded, serviceVars>>
    /\ lastPayload' = Payload(keyword)
    /\ inflight' = inflight \cup
           {[id |-> nextId, page |-> page, keyword |-> keyword]}
    /\ nextId' = nextId + 1
    /\ UNCHANGED <<totalPages, totalArticlesAvailable, display>>

\* ------------------------------------------------------------------------
\* Handlers of the main script
\* ------------------------------------------------------------------------
\* lastOp.data is the response body a success continuation received
NoData == [total_pages |-> -1, total_articles_available |-> -1, n |-> -1]

Op(op, arg, page) == [op |-> op, arg |-> arg, page |-> page, data |-> NoData]

SuccessOp(r, data) ==
    [op |-> "success", arg |-> r.id, page |-> r.page, data |-> data]

CardShown == \E i \in 1..Len(display) : display[i].kind = "card"

\* the toggle of handleArticleTagClick, applied to the tag filters tags
toggleTagFilter(tags, tagId) ==
    IF HasTag(tags, tagId)
    THEN removeActiveTagFilter(tags, tagId)
    ELSE addActiveTagFilter(tags, TagObj(tagId))

handleArticleTagClick(tagId) ==
    /\ CardShown
    /\ activeTagFilterIds' = toggleTagFilter(activeTagFilterIds, tagId)
    /\ activeFeedFilterIds' = setActiveFeedFilterIds(<<>>)
    /\ currentKeywordSearch' = setCurrentKeywordSearch(Null)
    /\ currentPage' = setCurrentPage(1)
    /\ UNCHANGED <<articlesPerPage, storedArticlesPerPage>>
    /\ fetchAndDisplaySummaries(1, Null)
    /\ lastOp' = Op("tagClick", tagId, 0)
    /\ scrollFetchFailed' = FALSE

handleRemoveTagFilter(tagIdToRemove) ==
    /\ HasTag(activeTagFilterIds, tagIdToRemove)
    /\ activeTagFilterIds' = removeActiveTagFilter(activeTagFilterIds, tagIdToRemove)
    /\ currentPage' = setCurrentPage(1)
    /\ UNCHANGED <<activeFeedFilterIds, currentKeywordSearch, articlesPerPage,
                   storedArticlesPerPage>>
    /\ fetchAndDisplaySummaries(1, currentKeywordSearch')
    /\ lastOp' = Op("removeTag", tagIdToRemove, 0)
    /\ scrollFetchFailed' = FALSE

\* the clicked feed is added to the active ones instead of replacing them
FeedFilterAfterClick_MultiSelect(feedId) ==
    IF feedId \in Range(activeFeedFilterIds)
    THEN setActiveFeedFilterIds(<<>>)
    ELSE setActiveFeedFilterIds(Append(activeFeedFilterIds, feedId))

\* the toggle of handleFeedFilterClick
FeedFilterAfterClick(feedId) ==
    IF feedId \in Range(activeFeedFilterIds)
    THEN setActiveFeedFilterIds(<<>>)
    ELSE setActiveFeedFilterIds(<<feedId>>)

handleFeedFilterClick(feedId) ==
    /\ activeFeedFilterIds' = FeedFilterAfterClick(feedId)
    /\ activeTagFilterIds' = setActiveTagFilterIds(<<>>)
    /\ currentKeywordSearch' = setCurrentKeywordSearch(Null)
    /\ currentPage' = setCurrentPage(1)
    /\ UNCHANGED <<articlesPerPage, storedArticlesPerPage>>
    /\ fetchAndDisplaySummaries(1, Null)
    /\ lastOp' = Op("feedClick", feedId, 0)
    /\ scrollFetchFailed' = FALSE

\* lastOp.arg tells the two branches apart: 0 is the early return
handleAllFeedsClick ==
    IF /\ Len(activeFeedFilterIds) = 0
       /\ Len(activeTagFilterIds) = 0
       /\ ~Truthy(currentKeywordSearch)
    THEN \* no change if already showing all
            /\ lastOp' = Op("allFeeds", 0, 0)
            /\ UNCHANGED <<articlesPerPage, currentPage, totalPages,
                           totalArticlesAvailable, isLoadingMoreArticles,
                           activeFeedFilterIds, activeTagFilterIds,
                           currentKeywordSearch, storedArticlesPerPage,
                           display, inflight, lastPayload, nextId,
                           promptVars, regenVars, configLoaded, serviceVars, scrollFetchFailed>>
    ELSE    /\ activeFeedFilterIds' = setActiveFeedFilterIds(<<>>)
            /\ currentPage' = setCurrentPage(1)
            /\ UNCHANGED <<activeTagFilterIds, currentKeywordSearch,
                           articlesPerPage, storedArticlesPerPage>>
            /\ fetchAndDisplaySummaries(1, currentKeywordSearch')
            /\ lastOp' = Op("allFeeds", 1, 0)
            /\ scrollFetchFailed' = FALSE

keywordSearchClick(inputValue) ==
    LET searchTerm == Trim(inputValue) IN
    /\ currentKeywordSearch' = setCurrentKeywordSearch(OrNull(searchTerm))
    /\ activeFeedFilterIds' = setActiveFeedFilterIds(<<>>)
    /\ activeTagFilterIds' = setActiveTagFilterIds(<<>>)
    /\ currentPage' = setCurrentPage(1)
    /\ UNCHANGED <<articlesPerPage, storedArticlesPerPage>>
    /\ fetchAndDisplaySummaries(1, currentKeywordSearch')
    /\ lastOp' = Op("keyword", 0, 0)
    /\ scrollFetchFailed' = FALSE

\* configManager.saveArticlesPerPage with the onArticlesPerPageChange callback
saveArticlesPerPage(count) ==
    IF count >= MinPageSize /\ count <= MaxPageSize
    THEN /\ articlesPerPage' = setArticlesPerPage(count)
         /\ storedArticlesPerPage' = toString(count)
         /\ currentPage' = setCurrentPage(1)
         /\ UNCHANGED filterVars
         /\ fetchAndDisplaySummaries(1, currentKeywordSearch')
         /\ lastOp' = Op("pageSize", count, 0)
         /\ scrollFetchFailed' = FALSE
    ELSE /\ lastOp' = Op("pageSizeRejected", count, 0)
         /\ UNCHANGED <<articlesPerPage, currentPage, totalPages,
                        totalArticlesAvailable, isLoadingMoreArticles,
                        activeFeedFilterIds, activeTagFilterIds,
                        currentKeywordSearch, storedArticlesPerPage,
                        display, inflight, lastPayload, nextId,
                        promptVars, regenVars, configLoaded, serviceVars, scrollFetchFailed>>

\* the view refresh after an RSS refresh, after a cleanup, and the first
\* fetch of initializeAppSettings
refreshView ==
    /\ currentPage' = setCurrentPage(1)
    /\ UNCHANGED <<filterVars, articlesPerPage, storedArticlesPerPage>>
    /\ fetchAndDisplaySummaries(1, currentKeywordSearch')
    /\ lastOp' = Op("refresh", 0, 0)
    /\ scrollFetchFailed' = FALSE

\* the scroll listener, at the bottom of the page
scrollListener ==
    /\ ~isLoadingMoreArticles
    /\ currentPage < totalPages
    /\ currentPage' = setCurrentPage(currentPage + 1)
    /\ UNCHANGED <<filterVars, articlesPerPage, storedArticlesPerPage>>
    /\ fetchAndDisplaySummaries(currentPage', currentKeywordSearch')
    /\ lastOp' = Op("scroll", 0, 0)
    /\ UNCHANGED scrollFetchFailed

\* ------------------------------------------------------------------------
\* The AI prompt form of the setup tab and the regenerate-summary modal
\* ------------------------------------------------------------------------
paginationVars ==
    <<articlesPerPage, currentPage, totalPages, totalArticlesAvailable,
      isLoadingMoreArticles, activeFeedFilterIds, activeTagFilterIds,
      currentKeywordSearch, storedArticlesPerPage, display, inflight,
      lastPayload, nextId, scrollFetchFailed>>

\* no custom*Prompt entry in localStorage
NoStoredPrompts ==
    [customSummaryPrompt |-> Null, customChatPrompt |-> Null,
     customTagGenerationPrompt |-> Null]

\* `x || fallback` for strings
OrElse(s, fallback) == IF Truthy(s) THEN s ELSE fallback

\* the placeholder test is left out
LacksPlaceholder_Never(prompt, placeholder) == FALSE

\* `prompt && !prompt.includes(placeholder)`
LacksPlaceholder(prompt, placeholder) ==
    Truthy(prompt) /\ ~Includes(prompt, placeholder)

\* state.setCurrentPrompts, as the three values it leaves
setCurrentPrompts(summary, chat, tag) ==
    [summary |-> OrElse(summary, defaultSummaryPrompt),
     chat    |-> OrElse(chat, defaultChatPrompt),
     tag     |-> OrElse(tag, defaultTagGenerationPrompt)]

\* lastOp.arg of a rejection names the field that failed (1 summary,
\* 2 tag generation); lastOp.arg of a save is 1 when the chat prompt
\* warning was shown.
saveAiPrompts(newSummaryPrompt, newChatPrompt, newTagGenerationPrompt) ==
    IF LacksPlaceholder(newSummaryPrompt, TextPlaceholder)
    THEN /\ lastOp' = Op("promptsRejected", 1, 0)
         /\ UNCHANGED <<paginationVars, promptVars, regenVars, configLoaded, serviceVars>>
    ELSE IF LacksPlaceholder(newTagGenerationPrompt, TextPlaceholder)
    THEN /\ lastOp' = Op("promptsRejected", 2, 0)
         /\ UNCHANGED <<paginationVars, promptVars, regenVars, configLoaded, serviceVars>>
    ELSE LET warned == LacksPlaceholder(newChatPrompt, QuestionPlaceholder)
             new == setCurrentPrompts(
                        OrElse(Trim(newSummaryPrompt), defaultSummaryPrompt),
                        OrElse(Trim(newChatPrompt), defaultChatPrompt),
                        OrElse(Trim(newTagGenerationPrompt),
                               defaultTagGenerationPrompt))
         IN  /\ currentSummaryPrompt' = new.summary
             /\ currentChatPrompt' = new.chat
             /\ currentTagGenerationPrompt' = new.tag
             /\ storedPrompts' =
                    [customSummaryPrompt |-> new.summary,
                     customChatPrompt |-> new.chat,
                     customTagGenerationPrompt |-> new.tag]
             /\ lastOp' = Op("promptsSaved", IF warned THEN 1 ELSE 0, 0)
             /\ UNCHANGED <<paginationVars, regenVars, configLoaded, serviceVars>>

\* Submit of the regenerate-summary modal, up to the await.  articleId 0
\* is the empty article id field.  lastOp.arg of a rejection is 0 for the
\* missing article id and 1 for a prompt without {text}.  The modal stays
\* open over whatever the results container shows, and the handler skips
\* the card elements it does not find.
handleRegenerateSummaryFormSubmit(articleId, promptInput) ==
    LET customPrompt == Trim(promptInput) IN
    /\ IF articleId = 0
       THEN /\ lastOp' = Op("regenRejected", 0, 0)
            /\ UNCHANGED <<paginationVars, promptVars, regenVars, configLoaded, serviceVars>>
       ELSE IF LacksPlaceholder(customPrompt, TextPlaceholder)
       THEN /\ lastOp' = Op("regenRejected", 1, 0)
            /\ UNCHANGED <<paginationVars, promptVars, regenVars, configLoaded, serviceVars>>
       ELSE /\ regenSent < MaxRegens
            /\ regenInflight' = regenInflight \cup
                   {[id |-> regenSent + 1, articleId |-> articleId,
                     custom_prompt |-> OrNull(customPrompt)]}
            /\ regenSent' = regenSent + 1
            /\ lastOp' = Op("regenerate", articleId, 0)
            /\ UNCHANGED <<paginationVars, promptVars, configLoaded, serviceVars>>

\* the response of a regenerate-summary request, success or failure: it
\* rewrites the summary text of the card and enables its button again
RegenerateDone(r) ==
    /\ r \in regenInflight
    /\ regenInflight' = regenInflight \ {r}
    /\ lastOp' = Op("regenerated", r.id, 0)
    /\ UNCHANGED <<paginationVars, promptVars, regenSent, configLoaded, serviceVars>>

\* ------------------------------------------------------------------------
\* fetchAndDisplaySummaries, after the await
\* ------------------------------------------------------------------------
\* the responses the backend can give: n articles on the page
Responses ==
    {d \in [total_pages : 0..MaxTotalPages,
             total_articles_available : 0..MaxArticles,
             n : 0..MaxArticles] : d.n <= d.total_articles_available}

NoResultsItem(r) ==
    IF Len(dbFeedSources) = 0 /\ Len(activeTagFilterIds) = 0
       /\ ~Truthy(r.keyword)
    THEN Item("noFeeds", r.id, 0)
    ELSE Item("noResults", r.id, 0)

\* the empty result is rendered like any other page
SuccessDisplay_NoMessage(r, data) ==
    displayArticleResults(display, Cards(r.id, data.n), r.page = 1)

SuccessDisplay(r, data) ==
    IF r.page = 1 /\ data.n = 0 /\ data.total_articles_available = 0
    THEN setResultsContainerContent(NoResultsItem(r))
    ELSE displayArticleResults(display, Cards(r.id, data.n), r.page = 1)

FetchSuccess(r, data) ==
    /\ r \in inflight
    /\ inflight' = inflight \ {r}
    /\ totalArticlesAvailable' =
           IF r.page = 1
           THEN setTotalArticlesAvailable(data.total_articles_available)
           ELSE totalArticlesAvailable
    /\ totalPages' = setTotalPages(data.total_pages)
    /\ display' = SuccessDisplay(r, data)
    /\ isLoadingMoreArticles' = setIsLoadingMoreArticles(FALSE)
    /\ lastOp' = SuccessOp(r, data)
    /\ UNCHANGED scrollFetchFailed
    /\ UNCHANGED <<filterVars, articlesPerPage, storedArticlesPerPage,
                   currentPage, lastPayload, nextId, promptVars, regenVars, configLoaded, serviceVars>>

FailureDisplay(r) ==
    IF r.page = 1
    THEN setResultsContainerContent(Item("error", r.id, 0))
    ELSE Append(display, Item("error", r.id, 0))

\* the flag is cleared on the success path only
FetchFailure_FlagLeftSet(r) ==
    /\ r \in inflight
    /\ inflight' = inflight \ {r}
    /\ display' = FailureDisplay(r)
    /\ totalPages' = setTotalPages(currentPage)
    /\ UNCHANGED isLoadingMoreArticles
    /\ lastOp' = Op("failure", r.id, r.page)
    /\ scrollFetchFailed' = (scrollFetchFailed \/ r.page # 1)
    /\ UNCHANGED <<filterVars, articlesPerPage, storedArticlesPerPage,
                   currentPage, totalArticlesAvailable, lastPayload, nextId,
                   promptVars, regenVars, configLoaded, serviceVars>>

FetchFailure(r) ==
    /\ r \in inflight
    /\ inflight' = inflight \ {r}
    /\ display' = FailureDisplay(r)
    /\ totalPages' = setTotalPages(currentPage)
    /\ isLoadingMoreArticles' = setIsLoadingMoreArticles(FALSE)
    /\ lastOp' = Op("failure", r.id, r.page)
    /\ scrollFetchFailed' = (scrollFetchFailed \/ r.page # 1)
    /\ UNCHANGED <<filterVars, articlesPerPage, storedArticlesPerPage,
                   currentPage, totalArticlesAvailable, lastPayload, nextId,
                   promptVars, regenVars, configLoaded, serviceVars>>

\* ------------------------------------------------------------------------
\* configManager.js: the API endpoints
\* ------------------------------------------------------------------------
\* the endpoints state.js starts with: '/api/get-news-summaries', '/api'
DefaultSummariesEndpoint ==
    <<47, 97, 112, 105, 47, 103, 101, 116, 45, 110, 101, 119, 115, 45,
      115, 117, 109, 109, 97, 114, 105, 101, 115>>

DefaultChatBase == <<47, 97, 112, 105>>

\* '/chat-with-article'
ChatPath ==
    <<47, 99, 104, 97, 116, 45, 119, 105, 116, 104, 45, 97, 114, 116, 105,
      99, 108, 101>>

\* String.prototype.endsWith
EndsWith(s, suffix) ==
    Len(s) >= Len(suffix)
    /\ SubSeq(s, Len(s) - Len(suffix) + 1, Len(s)) = suffix

\* String.prototype.lastIndexOf for one character (-1: not found)
LastIndexOf(s, c) ==
    LET at == {i \in 1..Len(s) : s[i] = c}
    IN IF at = {} THEN -1 ELSE (CHOOSE i \in at : \A j \in at : j <= i) - 1

\* s.substring(0, end)
Substring0(s, end) == SubSeq(s, 1, end)

\* the chat base of a full chat URL: the URL without a final
\* '/chat-with-article'
chatBaseOf(fullPath) ==
    IF EndsWith(fullPath, ChatPath)
    THEN Substring0(fullPath, LastIndexOf(fullPath, 47))
    ELSE fullPath

\* state.setApiEndpoints, for one endpoint: a falsy value is ignored
setApiEndpoint(current, endpoint) ==
    IF Truthy(endpoint) THEN endpoint ELSE current

\* the values of the two inputs of the API endpoint form: '', ' ', '/x',
\* '/x/chat-with-article', '/chat-with-article' and a padded URL
ChatUrlInputs ==
    {<<>>, <<32>>, <<47, 120>>, <<47, 120>> \o ChatPath, ChatPath,
     <<32, 47, 120>> \o ChatPath \o <<32>>}

SummariesUrlInputs == {<<>>, <<47, 115>>}

\* default_chat_api_base and default_summaries_api_endpoint of the backend
\* configuration (Null: not set)
ChatBaseDefaults == {Null, <<47, 98>>}

SummariesEndpointDefaults == {Null, <<47, 100>>}

\* configManager.saveApiEndpoints.  state is the namespace object of
\* import * as state: an assignment to one of its properties throws a
\* TypeError where the modules are loaded as they are written, and assigns
\* where a build has turned the namespace into a plain object; writable
\* says which.  A throw ends the function where it stands.
saveApiEndpoints(newSummariesApiUrl, newChatApiUrlFullPath, writable) ==
    LET summaries == Trim(newSummariesApiUrl)
        chat == Trim(newChatApiUrlFullPath)
        thrownAtSummaries == Truthy(summaries) /\ ~writable
    IN
    /\ IF Truthy(summaries) /\ writable
       THEN /\ SUMMARIES_API_ENDPOINT' = summaries
            /\ storedSummariesEndpoint' = summaries
       ELSE UNCHANGED <<SUMMARIES_API_ENDPOINT, storedSummariesEndpoint>>
    /\ IF Truthy(chat) /\ ~thrownAtSummaries
       THEN /\ storedChatEndpoint' = chat
            /\ CHAT_API_ENDPOINT_BASE' =
                   IF writable THEN OrElse(chatBaseOf(chat), DefaultChatBase)
                   ELSE CHAT_API_ENDPOINT_BASE
            /\ savedChatBase' = CHAT_API_ENDPOINT_BASE'
       ELSE UNCHANGED <<storedChatEndpoint, CHAT_API_ENDPOINT_BASE,
                        savedChatBase>>
    /\ lastOp' = Op("saveApiEndpoints", IF writable THEN 1 ELSE 0, 0)
    /\ UNCHANGED <<paginationVars, promptVars, regenVars, configLoaded,
                   apiVars, chatVars>>

\* ------------------------------------------------------------------------
\* apiService.js: handleFetch
\* ------------------------------------------------------------------------
\* A response body is its text and what JSON.parse makes of the text:
\* no JSON at all, the JSON value null, or an object whose detail field is
\* a string or is absent (Null).
NotJson == [kind |-> "notjson", detail |-> Null]

JsonNull == [kind |-> "null", detail |-> Null]

JsonObject(detail) == [kind |-> "object", detail |-> detail]

DetailInputs == {Null, <<>>, <<97>>}

TextInputs == {<<>>, <<97>>}

\* JSON.stringify of a parsed value: null, {} or {"detail":"..."}
Stringify(parsed) ==
    IF parsed.kind = "null" THEN <<110, 117, 108, 108>>
    ELSE IF parsed.detail = Null THEN <<123, 125>>
    ELSE <<123, 34, 100, 101, 116, 97, 105, 108, 34, 58, 34>>
         \o parsed.detail \o <<34, 125>>

TextBody(t) == [raw |-> t, parsed |-> NotJson]

JsonBody(value) == [raw |-> Stringify(value), parsed |-> value]

Bodies == {TextBody(t) : t \in TextInputs}
          \cup {JsonBody(JsonObject(d)) : d \in DetailInputs}
          \cup {JsonBody(JsonNull)}

Statuses == {200, 204, 404, 500}

\* response.ok
Ok(status) == status >= 200 /\ status <= 299

NoResponse == [status |-> 0, body |-> TextBody(<<>>), bodyUsed |-> FALSE]

\* the decimal digits of a three-digit status
StatusDigits(status) ==
    <<48 + (status \div 100), 48 + ((status \div 10) % 10), 48 + (status % 10)>>

\* `HTTP error! status: ${response.status}`
GenericMessage(status) ==
    <<72, 84, 84, 80, 32, 101, 114, 114, 111, 114, 33, 32,
      115, 116, 97, 116, 117, 115, 58, 32>> \o StatusDigits(status)

\* the message of the SyntaxError that response.json() rejects with
SyntaxErrorMessage == <<83, 121, 110, 116, 97, 120, 69, 114, 114, 111, 114>>

\* await fetch(url, options) resolves.  An ok response returns null (204)
\* or response.json(), which rejects when the body is no JSON; any other
\* response enters the error branch with the generic message.
handleFetch(status, body) ==
    /\ apiPc = "idle"
    /\ apiResponse' = [status |-> status, body |-> body, bodyUsed |-> FALSE]
    /\ IF ~Ok(status)
       THEN /\ errorDetail' = GenericMessage(status)
            /\ apiPc' = "json"
            /\ UNCHANGED thrownError
       ELSE /\ thrownError' = IF status # 204 /\ body.parsed.kind = "notjson"
                              THEN SyntaxErrorMessage ELSE Null
            /\ UNCHANGED <<errorDetail, apiPc>>
    /\ lastOp' = Op("handleFetch", status, 0)
    /\ UNCHANGED <<paginationVars, promptVars, regenVars, configLoaded,
                   endpointVars, chatVars>>

\* await response.json() settles: the body has been read.  A body that is
\* no JSON rejects, and so does reading .detail of null; both reach the
\* catch block.  Otherwise
\* errorData.detail || JSON.stringify(errorData) || errorDetail.
handleFetchJson ==
    /\ apiPc = "json"
    /\ apiResponse' = [apiResponse EXCEPT !.bodyUsed = TRUE]
    /\ IF apiResponse.body.parsed.kind = "object"
       THEN /\ errorDetail' =
                 OrElse(apiResponse.body.parsed.detail,
                        OrElse(Stringify(apiResponse.body.parsed), errorDetail))
            /\ apiPc' = "throw"
       ELSE /\ apiPc' = "text"
            /\ UNCHANGED errorDetail
    /\ lastOp' = Op("handleFetchJson", apiResponse.status, 0)
    /\ UNCHANGED <<paginationVars, promptVars, regenVars, configLoaded,
                   endpointVars, chatVars, thrownError>>

\* await response.text() settles in the catch block: a body that has been
\* read already rejects and the inner catch ignores it, otherwise
\* errorDetail = text || errorDetail.
handleFetchText ==
    /\ apiPc = "text"
    /\ errorDetail' = IF apiResponse.bodyUsed THEN errorDetail
                      ELSE OrElse(apiResponse.body.raw, errorDetail)
    /\ apiPc' = "throw"
    /\ lastOp' = Op("handleFetchText", apiResponse.status, 0)
    /\ UNCHANGED <<paginationVars, promptVars, regenVars, configLoaded,
                   endpointVars, chatVars, apiResponse, thrownError>>

\* throw new Error(errorDetail)
handleFetchThrow ==
    /\ apiPc = "throw"
    /\ thrownError' = errorDetail
    /\ apiPc' = "idle"
    /\ lastOp' = Op("handleFetchThrow", apiResponse.status, 0)
    /\ UNCHANGED <<paginationVars, promptVars, regenVars, configLoaded,
                   endpointVars, chatVars, apiResponse, errorDetail>>

\* ------------------------------------------------------------------------
\* chatHandler.js: the article chat modal
\* ------------------------------------------------------------------------
ChatArticles == 1..NumChatArticles

\* a chat item {role, content}; a content is its text, the article it is
\* about and the number of the question it belongs to
ChatItem(role, content) == [role |-> role, content |-> content]

Content(text, article, q) == [text |-> text, article |-> article, q |-> q]

ThinkingMessage == ChatItem("ai", Content("AI is thinking...", 0, 0))

\* the history the backend returns for an article: one earlier exchange
ServerHistory(article) ==
    <<ChatItem("user", Content("stored", article, 0)),
      ChatItem("ai", Content("stored", article, 0))>>

\* state.setCurrentChatHistory
setCurrentChatHistory(history) == history

\* renderChatHistoryInModal: one element per item, the earlier ones removed
renderChatHistoryInModal(historyArray) == historyArray

LoadingParagraph == <<ChatItem("none", Content("Loading chat history...", 0, 0))>>

ErrorParagraph(article) ==
    <<ChatItem("none", Content("Error loading chat history", article, 0))>>

\* Array.prototype.pop, as the array it leaves
Pop(array) ==
    IF array = <<>> THEN <<>> ELSE SubSeq(array, 1, Len(array) - 1)

\* history.slice(0, -2)
SliceButLastTwo(array) ==
    IF Len(array) <= 2 THEN <<>> ELSE SubSeq(array, 1, Len(array) - 2)

\* openArticleChatModal with fetchAndDisplayChatHistoryForModal up to its
\* await
openArticleChatModal(article) ==
    /\ chatOpens < MaxChatOpens
    /\ chatOpens' = chatOpens + 1
    /\ currentArticleForChat' = article
    /\ currentChatHistory' = setCurrentChatHistory(<<>>)
    /\ chatModalHistory' = LoadingParagraph
    /\ historyInflight' =
           historyInflight \cup {[id |-> chatOpens + 1, article |-> article]}
    /\ lastOp' = Op("openChat", article, 0)
    /\ UNCHANGED <<chatInputDisabled, chatInflight, chatSent>>
    /\ UNCHANGED <<paginationVars, promptVars, regenVars, configLoaded,
                   apiVars, endpointVars>>

closeArticleChatModal ==
    /\ currentArticleForChat # 0
    /\ currentArticleForChat' = 0
    /\ currentChatHistory' = setCurrentChatHistory(<<>>)
    /\ lastOp' = Op("closeChat", currentArticleForChat, 0)
    /\ UNCHANGED <<chatModalHistory, chatInputDisabled, chatInflight,
                   historyInflight, chatSent, chatOpens>>
    /\ UNCHANGED <<paginationVars, promptVars, regenVars, configLoaded,
                   apiVars, endpointVars>>

\* fetchAndDisplayChatHistoryForModal after its await, the history received
HistoryLoaded(r) ==
    /\ r \in historyInflight
    /\ historyInflight' = historyInflight \ {r}
    /\ currentChatHistory' = setCurrentChatHistory(ServerHistory(r.article))
    /\ chatModalHistory' = renderChatHistoryInModal(currentChatHistory')
    /\ lastOp' = Op("historyLoaded", r.id, r.article)
    /\ UNCHANGED <<currentArticleForChat, chatInputDisabled, chatInflight,
                   chatSent, chatOpens>>
    /\ UNCHANGED <<paginationVars, promptVars, regenVars, configLoaded,
                   apiVars, endpointVars>>

\* fetchAndDisplayChatHistoryForModal after its await, the request failed
HistoryFailed(r) ==
    /\ r \in historyInflight
    /\ historyInflight' = historyInflight \ {r}
    /\ chatModalHistory' = ErrorParagraph(r.article)
    /\ lastOp' = Op("historyFailed", r.id, r.article)
    /\ UNCHANGED <<currentArticleForChat, currentChatHistory,
                   chatInputDisabled, chatInflight, chatSent, chatOpens>>
    /\ UNCHANGED <<paginationVars, promptVars, regenVars, configLoaded,
                   apiVars, endpointVars>>

\* handleModalArticleChatSubmit up to its await.  The ask button and the
\* question input take no event while they are disabled; a question that
\* is empty after trim is rejected with an alert.
handleModalArticleChatSubmit(value) ==
    LET question == Trim(value)
        q == chatSent + 1
        asked == Append(currentChatHistory,
                        ChatItem("user",
                                 Content("question", currentArticleForChat, q)))
        thinking == Append(asked, ThinkingMessage)
    IN
    /\ ~chatInputDisabled
    /\ currentArticleForChat # 0
    /\ IF ~Truthy(question)
       THEN /\ lastOp' = Op("chatRejected", currentArticleForChat, 0)
            /\ UNCHANGED chatVars
       ELSE /\ chatSent < MaxChatSubmits
            /\ chatSent' = q
            /\ currentChatHistory' = thinking
            /\ chatModalHistory' = renderChatHistoryInModal(thinking)
            /\ chatInputDisabled' = TRUE
            /\ chatInflight' = chatInflight \cup
                   {[id |-> q, article_id |-> currentArticleForChat,
                     chat_prompt |->
                         IF currentChatPrompt # defaultChatPrompt
                         THEN currentChatPrompt ELSE Null,
                     chat_history |-> SliceButLastTwo(thinking),
                     opens |-> chatOpens]}
            /\ lastOp' = Op("chatSubmit", currentArticleForChat, 0)
            /\ UNCHANGED <<currentArticleForChat, historyInflight, chatOpens>>
    /\ UNCHANGED <<paginationVars, promptVars, regenVars, configLoaded,
                   apiVars, endpointVars>>

\* the entries pushed after the await: the answer, or "AI Error: ..."
AnswerItem(r) == ChatItem("ai", Content("answer", r.article_id, r.id))

ErrorItem(r) == ChatItem("ai", Content("AI Error:", r.article_id, r.id))

\* handleModalArticleChatSubmit after its await: the try block or the catch
\* block, then the finally block
ChatSettled(r, item, op) ==
    /\ r \in chatInflight
    /\ chatInflight' = chatInflight \ {r}
    /\ currentChatHistory' = Append(Pop(currentChatHistory), item)
    /\ chatModalHistory' = renderChatHistoryInModal(currentChatHistory')
    /\ chatInputDisabled' = FALSE
    /\ lastOp' = Op(op, r.id, r.article_id)
    /\ UNCHANGED <<currentArticleForChat, historyInflight, chatSent, chatOpens>>
    /\ UNCHANGED <<paginationVars, promptVars, regenVars, configLoaded,
                   apiVars, endpointVars>>

ChatAnswered(r) == ChatSettled(r, AnswerItem(r), "chatAnswered")

ChatFailed(r) == ChatSettled(r, ErrorItem(r), "chatFailed")

\* ------------------------------------------------------------------------
\* The program
\* ------------------------------------------------------------------------
Init ==
    /\ articlesPerPage = DefaultArticlesPerPage
    /\ currentPage = 1
    /\ totalPages = 1
    /\ totalArticlesAvailable = 0
    /\ isLoadingMoreArticles = FALSE
    /\ activeFeedFilterIds = <<>>
    /\ activeTagFilterIds = <<>>
    /\ currentKeywordSearch = Null
    /\ storedArticlesPerPage = Null
    /\ display = <<>>
    /\ inflight = {}
    /\ lastPayload = NoPayload
    /\ nextId = 1
    /\ currentSummaryPrompt = defaultSummaryPrompt
    /\ currentChatPrompt = defaultChatPrompt
    /\ currentTagGenerationPrompt = defaultTagGenerationPrompt
    /\ storedPrompts = NoStoredPrompts
    /\ regenInflight = {}
    /\ regenSent = 0
    /\ configLoaded = FALSE
    /\ apiResponse = NoResponse
    /\ errorDetail = Null
    /\ thrownError = Null
    /\ apiPc = "idle"
    /\ SUMMARIES_API_ENDPOINT = DefaultSummariesEndpoint
    /\ CHAT_API_ENDPOINT_BASE = DefaultChatBase
    /\ storedSummariesEndpoint = Null
    /\ storedChatEndpoint = Null
    /\ savedChatBase = Null
    /\ currentArticleForChat = 0
    /\ currentChatHistory = <<>>
    /\ chatModalHistory = <<>>
    /\ chatInputDisabled = FALSE
    /\ chatInflight = {}
    /\ historyInflight = {}
    /\ chatSent = 0
    /\ chatOpens = 0
    /\ lastOp = Op("init", 0, 0)
    /\ scrollFetchFailed = FALSE

Next ==
    \/ \E t \in Tags : handleArticleTagClick(t)
    \/ \E t \in Tags : handleRemoveTagFilter(t)
    \/ \E f \in Feeds : handleFeedFilterClick(f)
    \/ handleAllFeedsClick
    \/ \E v \in KeywordInputs : keywordSearchClick(v)
    \/ \E c \in PageSizeInputs : saveArticlesPerPage(c)
    \/ refreshView
    \/ scrollListener
    \/ \E r \in inflight : \E data \in Responses : FetchSuccess(r, data)
    \/ \E r \in inflight : FetchFailure(r)

Spec == Init /\ [][Next]_vars

\* ------------------------------------------------------------------------
\* Page load.  initializeAppSettings runs once per page load and applies
\* the stored preferences and the defaults of the backend configuration;
\* reloading the page starts the script again with localStorage kept.
\* ------------------------------------------------------------------------
\* default_articles_per_page of the backend configuration (0: not set)
BackendDefaults == {0, DefaultArticlesPerPage, MaxPageSize + 1}

loadConfigurations(default_articles_per_page, default_summaries_api_endpoint, default_chat_api_base) ==
    LET stored == parseIntString(storedArticlesPerPage)
        chatApiBase ==
            IF Truthy(storedChatEndpoint)
            THEN OrElse(chatBaseOf(storedChatEndpoint), DefaultChatBase)
            ELSE OrElse(default_chat_api_base, DefaultChatBase)
        loaded == setCurrentPrompts(
                      OrElse(storedPrompts.customSummaryPrompt,
                             defaultSummaryPrompt),
                      OrElse(storedPrompts.customChatPrompt,
                             defaultChatPrompt),
                      OrElse(storedPrompts.customTagGenerationPrompt,
                             defaultTagGenerationPrompt))
    IN
    /\ ~configLoaded
    /\ configLoaded' = TRUE
    /\ SUMMARIES_API_ENDPOINT' =
           setApiEndpoint(SUMMARIES_API_ENDPOINT,
               OrElse(storedSummariesEndpoint,
                      OrElse(default_summaries_api_endpoint,
                             DefaultSummariesEndpoint)))
    /\ CHAT_API_ENDPOINT_BASE' =
           setApiEndpoint(CHAT_API_ENDPOINT_BASE, chatApiBase)
    /\ UNCHANGED <<apiVars, chatVars, storedSummariesEndpoint,
                   storedChatEndpoint, savedChatBase>>
    /\ articlesPerPage' =
           IF Truthy(storedArticlesPerPage)
           THEN IF stored.nan THEN articlesPerPage
                ELSE setArticlesPerPage(stored.val)
           ELSE IF default_articles_per_page # 0
           THEN setArticlesPerPage(default_articles_per_page)
           ELSE articlesPerPage
    /\ currentSummaryPrompt' = loaded.summary
    /\ currentChatPrompt' = loaded.chat
    /\ currentTagGenerationPrompt' = loaded.tag
    /\ lastOp' = Op("loadConfig", default_articles_per_page, 0)
    /\ UNCHANGED <<currentPage, totalPages, totalArticlesAvailable,
                   isLoadingMoreArticles, filterVars, storedArticlesPerPage,
                   display, inflight, lastPayload, nextId, storedPrompts,
                   regenVars, scrollFetchFailed>>

\* the module state of state.js starts again from its initial values, the
\* pending continuations are gone, localStorage stays
reloadPage ==
    /\ articlesPerPage' = DefaultArticlesPerPage
    /\ currentPage' = 1
    /\ totalPages' = 1
    /\ totalArticlesAvailable' = 0
    /\ isLoadingMoreArticles' = FALSE
    /\ activeFeedFilterIds' = <<>>
    /\ activeTagFilterIds' = <<>>
    /\ currentKeywordSearch' = Null
    /\ display' = <<>>
    /\ inflight' = {}
    /\ lastPayload' = NoPayload
    /\ nextId' = 1
    /\ currentSummaryPrompt' = defaultSummaryPrompt
    /\ currentChatPrompt' = defaultChatPrompt
    /\ currentTagGenerationPrompt' = defaultTagGenerationPrompt
    /\ regenInflight' = {}
    /\ regenSent' = 0
    /\ configLoaded' = FALSE
    /\ apiResponse' = NoResponse
    /\ errorDetail' = Null
    /\ thrownError' = Null
    /\ apiPc' = "idle"
    /\ SUMMARIES_API_ENDPOINT' = DefaultSummariesEndpoint
    /\ CHAT_API_ENDPOINT_BASE' = DefaultChatBase
    /\ UNCHANGED <<storedSummariesEndpoint, storedChatEndpoint, savedChatBase>>
    /\ currentArticleForChat' = 0
    /\ currentChatHistory' = <<>>
    /\ chatModalHistory' = <<>>
    /\ chatInputDisabled' = FALSE
    /\ chatInflight' = {}
    /\ historyInflight' = {}
    /\ chatSent' = 0
    /\ chatOpens' = 0
    /\ lastOp' = Op("reload", 0, 0)
    /\ scrollFetchFailed' = FALSE
    /\ UNCHANGED <<storedArticlesPerPage, storedPrompts>>

\* The page size from page load to the requests: the configuration load,
\* the page-size form, and the fetches that need no filter.
StartupNext ==
    \/ reloadPage
    \/ \E d \in BackendDefaults : loadConfigurations(d, Null, Null)
    \/ \E c \in PageSizeInputs : saveArticlesPerPage(c)
    \/ refreshView
    \/ scrollListener
    \/ \E r \in inflight : \E data \in Responses : FetchSuccess(r, data)
    \/ \E r \in inflight : FetchFailure(r)

StartupSpec == Init /\ [][StartupNext]_vars

\* The forms of the setup tab and the regenerate modal.  The prompt form
\* and the modal write the prompts and the regenerate requests only, and
\* no handler of Next writes those; the page-size form is the one form
\* that reaches the pagination state.  The summaries requests it
\* sends stay pending here: their responses are steps of Spec.
PromptArticleIds == 0..1

SettingsNext ==
    \/ \E a, b, c \in PromptInputs : saveAiPrompts(a, b, c)
    \/ \E id \in PromptArticleIds : \E v \in PromptInputs :
          handleRegenerateSummaryFormSubmit(id, v)
    \/ \E r \in regenInflight : RegenerateDone(r)
    \/ \E c \in PageSizeInputs : saveArticlesPerPage(c)

SettingsSpec == Init /\ [][SettingsNext]_vars

\* The API endpoint form, the page load and the configuration load.
EndpointNext ==
    \/ \E s \in SummariesUrlInputs : \E c \in ChatUrlInputs :
          \E writable \in BOOLEAN : saveApiEndpoints(s, c, writable)
    \/ reloadPage
    \/ \E d \in BackendDefaults : \E s \in SummariesEndpointDefaults :
          \E b \in ChatBaseDefaults : loadConfigurations(d, s, b)

EndpointSpec == Init /\ [][EndpointNext]_vars

\* The chat modal: the chat buttons of the cards, the close button, the
\* ask button and the responses of the two chat endpoints.
QuestionInputs == {<<>>, <<32>>, <<97>>}

ChatNext ==
    \/ \E a \in ChatArticles : openArticleChatModal(a)
    \/ closeArticleChatModal
    \/ \E r \in historyInflight : HistoryLoaded(r)
    \/ \E r \in historyInflight : HistoryFailed(r)
    \/ \E v \in QuestionInputs : handleModalArticleChatSubmit(v)
    \/ \E r \in chatInflight : ChatAnswered(r)
    \/ \E r \in chatInflight : ChatFailed(r)

ChatSpec == Init /\ [][ChatNext]_vars

\* The requests of apiService.js, one at a time, each through the awaits
\* of handleFetch.
ApiNext ==
    \/ \E status \in Statuses : \E body \in Bodies : handleFetch(status, body)
    \/ handleFetchJson
    \/ handleFetchText
    \/ handleFetchThrow

ApiSpec == Init /\ [][ApiNext]_vars

\* The numeric setters of state.js called with any value: 0, 1, 2, -1,
\* 0.5, -0.5, 1.5, the strings "", "a", "2", "2a", "-1", and null.
JsInputs ==
    << JsNumber(FALSE, 0, FALSE), JsNumber(FALSE, 1, FALSE),
       JsNumber(FALSE, 2, FALSE), JsNumber(TRUE, 1, FALSE),
       JsNumber(FALSE, 0, TRUE), JsNumber(TRUE, 0, TRUE),
       JsNumber(FALSE, 1, TRUE),
       JsString(<<>>), JsString(<<97>>), JsString(<<50>>),
       JsString(<<50, 97>>), JsString(<<45, 49>>), JsNull >>

callSetArticlesPerPage(i) ==
    /\ articlesPerPage' = setArticlesPerPageOf(JsInputs[i])
    /\ lastOp' = Op("setArticlesPerPage", i, 0)
    /\ UNCHANGED <<currentPage, totalPages, totalArticlesAvailable,
                   isLoadingMoreArticles, filterVars, storedArticlesPerPage,
                   display, inflight, lastPayload, nextId, scrollFetchFailed,
                   promptVars, regenVars, configLoaded, serviceVars>>

callSetCurrentPage(i) ==
    /\ currentPage' = setCurrentPageOf(JsInputs[i])
    /\ lastOp' = Op("setCurrentPage", i, 0)
    /\ UNCHANGED <<articlesPerPage, totalPages, totalArticlesAvailable,
                   isLoadingMoreArticles, filterVars, storedArticlesPerPage,
                   display, inflight, lastPayload, nextId, scrollFetchFailed,
                   promptVars, regenVars, configLoaded, serviceVars>>

callSetTotalPages(i) ==
    /\ totalPages' = setTotalPagesOf(JsInputs[i])
    /\ lastOp' = Op("setTotalPages", i, 0)
    /\ UNCHANGED <<articlesPerPage, currentPage, totalArticlesAvailable,
                   isLoadingMoreArticles, filterVars, storedArticlesPerPage,
                   display, inflight, lastPayload, nextId, scrollFetchFailed,
                   promptVars, regenVars, configLoaded, serviceVars>>

callSetTotalArticlesAvailable(i) ==
    /\ totalArticlesAvailable' = setTotalArticlesAvailableOf(JsInputs[i])
    /\ lastOp' = Op("setTotalArticlesAvailable", i, 0)
    /\ UNCHANGED <<articlesPerPage, currentPage, totalPages,
                   isLoadingMoreArticles, filterVars, storedArticlesPerPage,
                   display, inflight, lastPayload, nextId, scrollFetchFailed,
                   promptVars, regenVars, configLoaded, serviceVars>>

SetterNext ==
    \/ \E i \in DOMAIN JsInputs : callSetArticlesPerPage(i)
    \/ \E i \in DOMAIN JsInputs : callSetCurrentPage(i)
    \/ \E i \in DOMAIN JsInputs : callSetTotalPages(i)
    \/ \E i \in DOMAIN JsInputs : callSetTotalArticlesAvailable(i)

SetterSpec == Init /\ [][SetterNext]_vars

\* ------------------------------------------------------------------------
\* Properties
\* ------------------------------------------------------------------------
InflightIds == {r.id : r \in inflight}

\* the response of request r is handled in this step
Handled(r) == r \in inflight /\ r \notin inflight'

ResponseOps == {"success", "failure"}

\* C1: Stale discard (replace).  When the response of a page-1 fetch r is
\* handled after a page-1 fetch dispatched later (the latest request sent)
\* has already had its response applied, the display is left as it is, so
\* that once both have arrived the display is the later fetch's result.
C1_StaleReplaceDiscarded ==
    [][\A r \in inflight :
          (/\ Handled(r)
           /\ r.page = 1
           /\ r.id < nextId - 1
           /\ lastPayload.page = 1
           /\ (nextId - 1) \notin InflightIds)
          => display' = display]_vars

\* C2: Stale discard (append).  Responses are applied to the article list
\* in request-issue order: when the response of a scroll-triggered fetch
\* (page > 1) has just been handled, no request issued after it has had its
\* response applied before; and the display never holds an item of an older
\* request after an item of a newer one.
C2_AppendInIssueOrder ==
    /\ (lastOp.op \in ResponseOps /\ lastOp.page > 1)
          => \A j \in (lastOp.arg + 1)..(nextId - 1) : j \in InflightIds
    /\ \A i, j \in 1..Len(display) :
          i < j => display[i].req <= display[j].req

\* C3: the scroll listener dispatches only when no other summaries fetch is
\* awaiting its response, and at most one scroll-triggered fetch is in
\* flight.
C3_OneScrollFetchInFlight ==
    /\ lastOp.op = "scroll" => Cardinality(inflight) = 1
    /\ Cardinality({r \in inflight : r.page > 1}) <= 1

\* ------------------------------------------------------------------------
FilterOps == {"feedClick", "tagClick", "removeTag", "keyword", "allFeeds",
              "pageSize"}

NonEmptyDimensions ==
    (IF Len(activeFeedFilterIds) > 0 THEN 1 ELSE 0)
    + (IF Len(activeTagFilterIds) > 0 THEN 1 ELSE 0)
    + (IF Truthy(currentKeywordSearch) THEN 1 ELSE 0)

\* C4: Filter exclusivity.  In every state at most one of the feed filter,
\* the tag filters and the keyword is non-empty; and a tag click made while
\* a feed filter is active leaves an empty feed filter, that single tag and
\* page 1.
C4_FilterExclusivity ==
    /\ [](NonEmptyDimensions <= 1)
    /\ [][\A t \in Tags :
             (lastOp' = Op("tagClick", t, 0) /\ Len(activeFeedFilterIds) > 0)
             => /\ activeFeedFilterIds' = <<>>
                /\ activeTagFilterIds' = <<TagObj(t)>>
                /\ currentPage' = 1]_vars

C4_Witness ==
    /\ lastOp.op = "tagClick"
    /\ activeFeedFilterIds = <<>>
    /\ Len(activeTagFilterIds) = 1
    /\ activeTagFilterIds[1].id = lastOp.arg
    /\ lastPayload.tag_ids = <<lastOp.arg>>
    /\ lastPayload.feed_source_ids = Null

C6_PageWithinTotal ==
    lastOp.op = "success" =>
        /\ currentPage >= 1
        /\ currentPage <= (IF totalPages > 1 THEN totalPages ELSE 1)

\* C7: a failed fetch sets totalPages to the page of the failed request,
\* and the failure of a scroll-triggered fetch adds an inline error after
\* the displayed items and touches none of them.
C7_FailurePinsRequestPage ==
    /\ [](lastOp.op = "failure" => totalPages = lastOp.page)
    /\ [][\A r \in inflight :
             (lastOp' = Op("failure", r.id, r.page) /\ r.page > 1)
             => display' = Append(display, Item("error", r.id, 0))]_vars

\* C8: No automatic retry.  After a scroll-triggered fetch has failed, the
\* scroll listener dispatches no fetch before the user performs a filter,
\* page-size or refresh action.
C8_NoScrollAfterFailure ==
    [][scrollFetchFailed => lastOp'.op # "scroll"]_vars

\* C9: every fetch clears the in-flight flag when it completes, on success
\* and on failure; the flag is set only while a request awaits its response;
\* and, every request being answered eventually, a set flag is eventually
\* cleared.
C9_FlagCleared ==
    /\ [](lastOp.op \in ResponseOps => ~isLoadingMoreArticles)
    /\ [](inflight = {} => ~isLoadingMoreArticles)
    /\ (isLoadingMoreArticles ~> ~isLoadingMoreArticles)

C9_Witness ==
    /\ lastOp.op = "failure"
    /\ lastOp.page > 1
    /\ inflight = {}
    /\ ~isLoadingMoreArticles

\* C10: Feed toggle.  A click on a feed that is not the active filter makes
\* the feed filter exactly that feed, whatever feed was active; a click on
\* the same feed right after that one leaves the feed filter empty.
C10_FeedToggle ==
    [][\A x \in Feeds :
          lastOp' = Op("feedClick", x, 0) =>
            /\ x \notin Range(activeFeedFilterIds)
                  => activeFeedFilterIds' = <<x>>
            /\ (lastOp = Op("feedClick", x, 0) /\ activeFeedFilterIds = <<x>>)
                  => activeFeedFilterIds' = <<>>]_vars

\* the second of two clicks on one feed, no response in between
C10_Witness ==
    /\ lastOp.op = "feedClick"
    /\ nextId = 3
    /\ Cardinality(inflight) = 2
    /\ activeFeedFilterIds = <<>>
    /\ lastPayload.feed_source_ids = Null

\* C11: Tag toggle symmetry.  For the tag filters of every reachable state
\* and every tag, in the list or not, two successive toggles of that tag
\* give back the same list, in the same order.
C11_ToggleTwiceRestores ==
    \A t \in Tags :
        toggleTagFilter(toggleTagFilter(activeTagFilterIds, t), t)
            = activeTagFilterIds

NormalizedKeyword(k) == k = Null \/ (k # <<>> /\ Trim(k) = k)

\* C14: Keyword normalization.  The stored keyword is null or a non-empty
\* trimmed string, never the empty string; right after a keyword search it
\* is the trimmed text of some input, null when that text is empty; and
\* the keyword of every request sent is null or a non-empty trimmed string.
C14_KeywordNormalized ==
    /\ [](/\ NormalizedKeyword(currentKeywordSearch)
          /\ NormalizedKeyword(lastPayload.keyword)
          /\ \A r \in inflight : NormalizedKeyword(r.keyword))
    /\ [][lastOp'.op = "keyword" =>
             /\ \E v \in KeywordInputs :
                   currentKeywordSearch' =
                       (IF Trim(v) = <<>> THEN Null ELSE Trim(v))
             /\ lastPayload'.keyword = currentKeywordSearch']_vars

\* a blank search made while the request of a search for a real keyword is
\* still awaiting its response
C14_Witness ==
    /\ lastOp.op = "keyword"
    /\ currentKeywordSearch = Null
    /\ lastPayload.keyword = Null
    /\ \E r \in inflight : Truthy(r.keyword)

\* C15: right after an 'All Feeds' click, whatever the filters were, the
\* feed filter, the tag filters and the keyword are all empty and the
\* current page is 1.
C15_AllFeedsClearsAll ==
    lastOp.op = "allFeeds" =>
        /\ activeFeedFilterIds = <<>>
        /\ activeTagFilterIds = <<>>
        /\ ~Truthy(currentKeywordSearch)
        /\ currentPage = 1

\* C16: in every state the feed filter holds at most one feed id, and the
\* request sent last (so every request, at the time it is sent) carries
\* feed_source_ids null or a one-element list, tag_ids null or a non-empty
\* list, keyword null or a non-empty string, all three mirroring the
\* filters they were built from.
C16_PayloadShape ==
    /\ Len(activeFeedFilterIds) <= 1
    /\ lastPayload.feed_source_ids = Null
          \/ Len(lastPayload.feed_source_ids) = 1
    /\ lastPayload.tag_ids = Null \/ Len(lastPayload.tag_ids) >= 1
    /\ lastPayload.keyword = Null \/ Len(lastPayload.keyword) >= 1
    /\ (lastOp.op \notin ResponseOps /\ lastPayload # NoPayload) =>
          /\ lastPayload.feed_source_ids =
                (IF activeFeedFilterIds = <<>> THEN Null
                 ELSE activeFeedFilterIds)
          /\ (lastPayload.tag_ids = Null) = (activeTagFilterIds = <<>>)

\* a second feed selected while the request for the first one is pending:
\* the payload carries the second feed alone
C16_Witness ==
    /\ lastOp = Op("feedClick", 2, 0)
    /\ activeFeedFilterIds = <<2>>
    /\ lastPayload.feed_source_ids = <<2>>
    /\ Cardinality(inflight) = 2
    /\ display = <<>>
    /\ nextId = 3
    /\ articlesPerPage = DefaultArticlesPerPage
    /\ currentKeywordSearch = Null

\* C17: every request sent to the summaries endpoint carries page >= 1 and
\* page_size in 1..50, whether the page size comes from the page-size
\* form, from the stored preference or from the backend default.
C17_PageSizeInRange ==
    lastPayload # NoPayload =>
        /\ lastPayload.page >= 1
        /\ lastPayload.page_size \in MinPageSize..MaxPageSize

\* the article cards of the results container, in display order
CardsOf(shown) ==
    LET IsCard(item) == item.kind = "card" IN SelectSeq(shown, IsCard)

\* the cards of successive requests one after the other, each request's
\* cards in the order of its response
IsConcatenationOfPages(cards) ==
    \A i \in 1..Len(cards) :
        IF i > 1 /\ cards[i - 1].req = cards[i].req
        THEN cards[i].idx = cards[i - 1].idx + 1
        ELSE /\ cards[i].idx = 1
             /\ i > 1 => cards[i - 1].req < cards[i].req

\* C18: Replace versus append.  A successful page-1 fetch leaves in the
\* display only what that response rendered (its cards, or the message
\* for an empty result); a successful scroll fetch leaves the display as it
\* was, followed by the cards of its response; and when the requests sent
\* so far are pages 1..k in this order, all answered with success, the
\* cards displayed are the cards of pages 1..k in page order.
C18_ReplaceOrAppend ==
    /\ [][\A r \in inflight :
             (lastOp'.op = "success" /\ lastOp'.arg = r.id) =>
                IF r.page = 1
                THEN /\ \A i \in 1..Len(display') : display'[i].req = r.id
                     /\ \/ \E n \in 0..MaxArticles : display' = Cards(r.id, n)
                        \/ display' = <<NoResultsItem(r)>>
                ELSE \E n \in 0..MaxArticles :
                        display' = display \o Cards(r.id, n)]_vars
    /\ []((/\ lastOp.op = "success"
           /\ lastOp.arg = nextId - 1
           /\ lastOp.page = nextId - 1
           /\ inflight = {})
          => /\ IsConcatenationOfPages(CardsOf(display))
             /\ \A i \in 1..Len(display) : display[i].kind # "error")

\* pages 1 and 2 fetched one after the other, one article on each
C18_Witness ==
    /\ lastOp.op = "success"
    /\ lastOp.arg = 2
    /\ lastOp.page = 2
    /\ nextId = 3
    /\ inflight = {}
    /\ display = Cards(1, 1) \o Cards(2, 1)

\* C19: the scroll listener dispatches only when the current page is below
\* totalPages and no summaries request is awaiting its response; it then
\* raises the page by exactly 1 and the request carries the raised page.
C19_ScrollGuard ==
    [][lastOp'.op = "scroll" =>
          /\ currentPage < totalPages
          /\ inflight = {}
          /\ currentPage' = currentPage + 1
          /\ lastPayload'.page = currentPage + 1
          /\ Cardinality(inflight') = 1]_vars

RejectedOps == {"pageSizeRejected", "promptsRejected", "regenRejected"}

EmptyStateKinds == {"noResults", "noFeeds"}

\* C21: Empty result messaging.  When the response of a page-1 fetch is
\* handled with success, carries no article and reports no article
\* available, the results container holds exactly one item afterwards, an
\* empty-state message, whichever filters are active.
C21_EmptyResultMessage ==
    [][(/\ lastOp'.op = "success"
        /\ lastOp'.page = 1
        /\ lastOp'.data.n = 0
        /\ lastOp'.data.total_articles_available = 0)
       => /\ Len(display') = 1
          /\ display'[1].kind \in EmptyStateKinds
          /\ display'[1].req = lastOp'.arg]_vars

\* an empty result for a tag filter, shown in place of the cards of the
\* page the tag was clicked on
C21_Witness ==
    /\ lastOp.op = "success"
    /\ lastOp.page = 1
    /\ lastOp.data.n = 0
    /\ lastOp.data.total_articles_available = 0
    /\ Len(activeTagFilterIds) > 0
    /\ display = <<Item("noResults", lastOp.arg, 0)>>

\* C22: for a non-success response the thrown message is the detail field
\* of a JSON body that has one, otherwise the raw text of a non-empty body
\* that is no JSON, otherwise the generic HTTP-status message.
ExpectedMessage(response) ==
    IF response.body.parsed.kind = "object" /\ response.body.parsed.detail # Null
    THEN response.body.parsed.detail
    ELSE IF response.body.parsed.kind = "notjson" /\ response.body.raw # <<>>
    THEN response.body.raw
    ELSE GenericMessage(response.status)

C22_ErrorMessagePreference ==
    (apiPc = "idle" /\ lastOp.op = "handleFetchThrow")
    => thrownError = ExpectedMessage(apiResponse)

\* C23: the page size is persisted across sessions.  A successful save of
\* n stores n and nothing else writes the stored preference; a
\* configuration load that finds a stored preference puts the page size
\* saved last into the state whatever the backend configuration says, and
\* the backend default is used only when nothing is stored.
C23_PageSizePersisted ==
    /\ [][lastOp'.op = "pageSize"
           => storedArticlesPerPage' = toString(lastOp'.arg)]_vars
    /\ [][lastOp'.op # "pageSize" => UNCHANGED storedArticlesPerPage]_vars
    /\ [][lastOp'.op = "loadConfig" =>
           IF storedArticlesPerPage # Null
           THEN \E n \in MinPageSize..MaxPageSize :
                   /\ storedArticlesPerPage = toString(n)
                   /\ articlesPerPage' = n
           ELSE articlesPerPage' =
                   IF lastOp'.arg > 0 THEN lastOp'.arg ELSE articlesPerPage]_vars

\* the largest page size restored over a different backend default
C23_Witness ==
    /\ lastOp = Op("loadConfig", MaxPageSize + 1, 0)
    /\ storedArticlesPerPage = toString(MaxPageSize)
    /\ articlesPerPage = MaxPageSize

\* C27: the loading flag is accurate.  In every state in which at least one
\* summaries request awaits its response, isLoadingMoreArticles is true,
\* also after the first of two overlapping fetches has completed.
C27_FlagSetWhileInFlight == inflight # {} => isLoadingMoreArticles

\* C28: the active tag filters never hold two entries with the same tag
\* id, whatever tag clicks, tag-filter removals, feed clicks and keyword
\* searches have happened.
C28_NoDuplicateTagFilters ==
    \A i, j \in 1..Len(activeTagFilterIds) :
        i # j => activeTagFilterIds[i].id # activeTagFilterIds[j].id

\* every tag is an active filter, the last one added by a click on a card
C28_Witness ==
    /\ lastOp.op = "tagClick"
    /\ Len(activeTagFilterIds) = NumTags
    /\ activeTagFilterIds[NumTags].id = lastOp.arg

\* C30: the numeric setters reject bad input without changing anything.
\* setCurrentPage and setArticlesPerPage called with a value that is no
\* number or is below 1, and setTotalPages and setTotalArticlesAvailable
\* called with a value that is no number or is negative, leave all state
\* unchanged; and currentPage >= 1, articlesPerPage >= 1 and
\* totalPages >= 0 hold in every state.
\* a value in which parseInt finds no number
NonNumber(v) == parseInt(v).nan

BelowOne(v) == v.type = "number" /\ (v.neg \/ v.int = 0)

Negative(v) == v.type = "number" /\ v.neg /\ (v.int > 0 \/ v.frac)

SetterState == <<paginationVars, promptVars, regenVars, configLoaded, serviceVars>>

C30_SettersRejectBadInput ==
    /\ [](currentPage >= 1 /\ articlesPerPage >= 1 /\ totalPages >= 0)
    /\ [][\A i \in DOMAIN JsInputs :
            /\ (/\ lastOp' \in {Op("setCurrentPage", i, 0),
                                Op("setArticlesPerPage", i, 0)}
                /\ (NonNumber(JsInputs[i]) \/ BelowOne(JsInputs[i])))
               => UNCHANGED SetterState
            /\ (/\ lastOp' \in {Op("setTotalPages", i, 0),
                                Op("setTotalArticlesAvailable", i, 0)}
                /\ (NonNumber(JsInputs[i]) \/ Negative(JsInputs[i])))
               => UNCHANGED SetterState]_vars

\* C29: chat endpoint round trip.  After a chat API URL has been saved, a
\* configuration load from the persisted preferences yields the chat
\* endpoint base that the save put into effect, for URLs that end in
\* '/chat-with-article' and for URLs that do not.
C29_ChatEndpointRoundTrip ==
    [][(lastOp'.op = "loadConfig" /\ storedChatEndpoint # Null)
       => CHAT_API_ENDPOINT_BASE' = savedChatBase]_vars

\* C24: chat answers never cross articles.  When the answer or the error
\* of a question about article A arrives while the modal is open for
\* another article B, the chat history held and the chat history shown are
\* left as they are.
ChatResponseOps == {"chatAnswered", "chatFailed"}

C24_AnswersNeverCross ==
    [][\A r \in chatInflight :
          (/\ lastOp'.op \in ChatResponseOps
           /\ lastOp'.arg = r.id
           /\ currentArticleForChat \notin {0, r.article_id})
          => UNCHANGED <<currentChatHistory, chatModalHistory>>]_vars

\* C25: the chat history load is not overwritten by a stale response.  When
\* the last pending history response has been handled and the modal is
\* open, the chat history is the server history of the article the modal
\* is open for.
C25_HistoryOfCurrentArticle ==
    [][(/\ lastOp'.op = "historyLoaded"
        /\ historyInflight' = {}
        /\ chatInflight = {}
        /\ currentArticleForChat # 0)
       => currentChatHistory' = ServerHistory(currentArticleForChat)]_vars

\* C26: the placeholder is transient.  With no chat request in flight the
\* history holds no "AI is thinking..." entry; and a submit that runs to
\* completion while the modal stays open for its article leaves the history
\* it found with two more entries, the question and then the answer or the
\* "AI Error:" entry.
C26_PlaceholderTransient ==
    /\ [](chatInflight = {} =>
            \A i \in 1..Len(currentChatHistory) :
                currentChatHistory[i] # ThinkingMessage)
    /\ [][\A r \in chatInflight :
            (/\ lastOp'.op \in ChatResponseOps
             /\ lastOp'.arg = r.id
             /\ chatOpens = r.opens
             /\ currentArticleForChat = r.article_id)
            => currentChatHistory' =
                  r.chat_history
                  \o <<ChatItem("user", Content("question", r.article_id, r.id)),
                       IF lastOp'.op = "chatAnswered"
                       THEN AnswerItem(r) ELSE ErrorItem(r)>>]_vars

\* ------------------------------------------------------------------------
\* Every request is answered eventually: the response actions are weakly
\* fair.
Respond ==
    \/ \E r \in inflight : \E data \in Responses : FetchSuccess(r, data)
    \/ \E r \in inflight : FetchFailure(r)

LiveSpec == Init /\ [][Next]_vars /\ WF_vars(Respond)

====
